---- MODULE Spec2Model ----
(***************************************************************************)
(* Growatt server integration: the apply-settings buttons (button.py), the *)
(* number entities (number.py) and the time entities (time.py) of one      *)
(* device, with the host's entity registry and state machine, the          *)
(* coordinator's field mapping and the vendor device behind the API.       *)
(*                                                                         *)
(* Texts that the code takes apart (unique ids, entity states, "HH:MM"     *)
(* values) are sequences of one-character strings; field names of the      *)
(* coordinator mapping are sequences of tokens (a template's literal part  *)
(* followed by the formatted segment id).                                  *)
(***************************************************************************)
EXTENDS Integers, Sequences, FiniteSets, TLC

VARIABLES
    device_type,  \* coordinator.device_type
    api_is_v1,    \* isinstance(coordinator.api, OpenApiV1)
    registry,     \* er.async_get(hass).entities.values(), in registration order
    states,       \* hass.states: registry index -> state text, or NoState
    data,         \* coordinator.data: field name -> value
    device,       \* the settings held by the inverter behind the vendor API
    proc,         \* per apply button: the press in progress / last finished
    edits,        \* number of local edits made so far
    edited,       \* per number / time entity: <<value>> of its last local edit
    call,         \* the last call of a pure method: its name and arguments
    returned      \* what that call returned

vars == <<device_type, api_is_v1, registry, states, data, device, proc, edits,
          edited, call, returned>>

\* the configuration, which no operation changes
config == <<device_type, api_is_v1, registry>>
\* the record of pure calls
pure == <<call, returned>>

(***************************************************************************)
(* Bounds of the model.                                                    *)
(***************************************************************************)
\* presses of one apply button
MaxPresses == 1
\* local edits (number or time) in one run
MaxEdits == 1
\* largest segment id a time entity is created with
MaxSegment == 5
\* devices of one config entry
MaxDevices == 2

(***************************************************************************)
(* Python text operations.                                                 *)
(***************************************************************************)
Digits == <<"0", "1", "2", "3", "4", "5", "6", "7", "8", "9">>

IsDigit(c) == \E i \in 1..10 : Digits[i] = c

DigitVal(c) == (CHOOSE i \in 1..10 : Digits[i] = c) - 1

\* str.endswith
EndsWith(s, suf) ==
    /\ Len(s) >= Len(suf)
    /\ SubSeq(s, Len(s) - Len(suf) + 1, Len(s)) = suf

\* the `sub in s` test on two texts
Contains(sub, s) ==
    \E i \in 1..(Len(s) - Len(sub) + 1) : SubSeq(s, i, i + Len(sub) - 1) = sub

\* str(n) for an integer n >= 0
RECURSIVE DecStr(_)
DecStr(n) == IF n < 10 THEN <<Digits[n + 1]>>
             ELSE DecStr(n \div 10) \o <<Digits[(n % 10) + 1]>>

\* f"{n:02d}" for 0 <= n
Pad2(n) == IF n < 10 THEN <<"0">> \o DecStr(n) ELSE DecStr(n)

\* the value of a text of digits
RECURSIVE DigitsVal(_)
DigitsVal(s) == IF s = <<>> THEN 0
                ELSE 10 * DigitsVal(SubSeq(s, 1, Len(s) - 1)) + DigitVal(s[Len(s)])

AllDigits(s) == s # <<>> /\ \A i \in 1..Len(s) : IsDigit(s[i])

\* index of the first occurrence of character c in s, 0 when there is none
FirstIndex(s, c) ==
    IF \E i \in 1..Len(s) : s[i] = c
    THEN CHOOSE i \in 1..Len(s) : s[i] = c /\ \A j \in 1..(i - 1) : s[j] # c
    ELSE 0

\* str.split(sep) for a one-character separator
RECURSIVE Split(_, _)
Split(s, sep) ==
    LET i == FirstIndex(s, sep)
    IN  IF i = 0 THEN <<s>>
        ELSE <<SubSeq(s, 1, i - 1)>> \o Split(SubSeq(s, i + 1, Len(s)), sep)

(***************************************************************************)
(* Words the identifiers are built from.                                   *)
(***************************************************************************)
U == <<"_">>
W_charge == <<"c", "h", "a", "r", "g", "e">>
W_discharge == <<"d", "i", "s">> \o W_charge
W_power == <<"p", "o", "w", "e", "r">>
W_stop_soc == <<"s", "t", "o", "p", "_", "s", "o", "c">>
W_start_time == <<"s", "t", "a", "r", "t", "_", "t", "i", "m", "e">>
W_end_time == <<"e", "n", "d", "_", "t", "i", "m", "e">>
W_period == <<"p", "e", "r", "i", "o", "d">>
W_enabled == <<"e", "n", "a", "b", "l", "e", "d">>
T_unknown == <<"u", "n", "k", "n", "o", "w", "n">>
T_on == <<"o", "n">>
T_off == <<"o", "f", "f">>

Kinds == {"charge", "discharge"}
KindChars(kind) == IF kind = "charge" THEN W_charge ELSE W_discharge

(***************************************************************************)
(* Entities and their unique ids.                                          *)
(***************************************************************************)
Roles == {"power", "stop_soc", "start_time", "end_time", "period_enabled"}
NumberRoles == {"power", "stop_soc"}
TimeRoles == {"start_time", "end_time"}

\* segment_id the time entities are created with
SegmentId == 1

\* GrowattNumberEntityDescription.key of MIN_NUMBER_TYPES / MIX_NUMBER_TYPES
NumberKeyChars(kind, role) ==
    KindChars(kind) \o U \o (IF role = "power" THEN W_power ELSE W_stop_soc)

\* GrowattNumber._attr_unique_id
NumberUniqueId(dev, kind, role) == dev \o U \o NumberKeyChars(kind, role)

\* _attr_unique_id of the four time entity classes
TimeUniqueId(dev, kind, role, segment_id) ==
    dev \o U \o KindChars(kind) \o U
        \o (IF role = "start_time" THEN W_start_time ELSE W_end_time)
        \o U \o DecStr(segment_id)

\* unique id of the period switch the buttons look for
SwitchUniqueId(dev, kind) ==
    dev \o U \o KindChars(kind) \o U \o W_period \o U \o <<"1">> \o U \o W_enabled

\* a registry entry: [platform, dev, kind, role]
UniqueId(e) ==
    IF e.role \in NumberRoles THEN NumberUniqueId(e.dev, e.kind, e.role)
    ELSE IF e.role \in TimeRoles THEN TimeUniqueId(e.dev, e.kind, e.role, SegmentId)
    ELSE SwitchUniqueId(e.dev, e.kind)

Entry(platform, dev, kind, role) ==
    [platform |-> platform, dev |-> dev, kind |-> kind, role |-> role]

\* coordinator.device_id of the device whose buttons are pressed
DeviceId == <<"S", "N", "1">>
\* device id of a second device of the same config entry
OtherDeviceId == <<"S", "N", "2">>

\* device id of a second device that has DeviceId as a substring
OverlappingDeviceId == <<"S", "N", "1", "2">>

\* creation order of the entities of one device
EntityOrder ==
    << <<"charge", "power">>, <<"charge", "stop_soc">>,
       <<"discharge", "power">>, <<"discharge", "stop_soc">>,
       <<"charge", "start_time">>, <<"charge", "end_time">>,
       <<"discharge", "start_time">>, <<"discharge", "end_time">>,
       <<"charge", "period_enabled">>, <<"discharge", "period_enabled">> >>

AllEntities == {EntityOrder[i] : i \in 1..Len(EntityOrder)}

RECURSIVE EntriesOf(_, _, _)
EntriesOf(dev, absent, i) ==
    IF i > Len(EntityOrder) THEN <<>>
    ELSE (IF EntityOrder[i] \in absent THEN <<>>
          ELSE <<Entry("growatt_server", dev, EntityOrder[i][1], EntityOrder[i][2])>>)
         \o EntriesOf(dev, absent, i + 1)

\* index of this device's entity in the registry, 0 when it is not registered
IndexOf(reg, kind, role) ==
    LET own == {i \in 1..Len(reg) :
                   /\ reg[i].role = role /\ reg[i].kind = kind
                   /\ reg[i].platform = "growatt_server" /\ reg[i].dev = DeviceId}
    IN  IF own = {} THEN 0 ELSE CHOOSE i \in own : TRUE

(***************************************************************************)
(* Values of the coordinator mapping.                                      *)
(***************************************************************************)
VAbsent == [ty |-> "absent", i |-> 0, s |-> <<>>]
VInt(n) == [ty |-> "int", i |-> n, s |-> <<>>]
VStr(t) == [ty |-> "str", i |-> 0, s |-> t]
\* a key that is present with the value None
VNone == [ty |-> "none", i |-> 0, s |-> <<>>]

\* GrowattNumberEntityDescription.api_key
MinApiKey(kind, role) ==
    IF kind = "charge"
    THEN (IF role = "power" THEN <<"chargePowerCommand">> ELSE <<"wchargeSOCLowLimit">>)
    ELSE (IF role = "power" THEN <<"disChargePowerCommand">>
          ELSE <<"wdisChargeSOCLowLimit">>)

MixApiKey(kind, role) ==
    IF kind = "charge"
    THEN (IF role = "power" THEN <<"chargePowerCommand">> ELSE <<"wchargeSOCLowLimit1">>)
    ELSE (IF role = "power" THEN <<"disChargePowerCommand">>
          ELSE <<"loadFirstStopSocSet">>)

\* number_types chosen in number.async_setup_entry
ApiKey(dtype, kind, role) ==
    IF dtype = "tlx" THEN MinApiKey(kind, role) ELSE MixApiKey(kind, role)

\* field templates: the literal part, then the {segment_id} placeholder
MIN_TLX_FIELD_TEMPLATES ==
    [start_time |-> <<"timeSegmentStart", "{segment_id}">>,
     stop_time |-> <<"timeSegmentStop", "{segment_id}">>,
     enabled |-> <<"timeSegmentEnabled", "{segment_id}">>]

SPH_MIX_CHARGE_FIELD_TEMPLATES ==
    [start_time |-> <<"forcedChargeTimeStart", "{segment_id}">>,
     stop_time |-> <<"forcedChargeTimeStop", "{segment_id}">>,
     enabled |-> <<"forcedChargeStopSwitch", "{segment_id}">>]

SPH_MIX_DISCHARGE_FIELD_TEMPLATES ==
    [start_time |-> <<"forcedDischargeTimeStart", "{segment_id}">>,
     stop_time |-> <<"forcedDischargeTimeStop", "{segment_id}">>,
     enabled |-> <<"forcedDischargeStopSwitch", "{segment_id}">>]

\* template.format(segment_id=n)
RECURSIVE Format(_, _)
Format(template, n) ==
    IF template = <<>> THEN <<>>
    ELSE (IF Head(template) = "{segment_id}" THEN DecStr(n) ELSE <<Head(template)>>)
         \o Format(Tail(template), n)

\* mutant: the discharge entities use the charge templates
GetFieldNameChargeOnly(dtype, kind, field_type, segment_id) ==
    LET template ==
            IF dtype = "tlx" THEN MIN_TLX_FIELD_TEMPLATES[field_type]
            ELSE SPH_MIX_CHARGE_FIELD_TEMPLATES[field_type]
    IN  Format(template, segment_id)

\* _get_field_name of the charge / discharge time entities
GetFieldName(dtype, kind, field_type, segment_id) ==
    LET template ==
            IF dtype = "tlx" THEN MIN_TLX_FIELD_TEMPLATES[field_type]
            ELSE IF kind = "charge" THEN SPH_MIX_CHARGE_FIELD_TEMPLATES[field_type]
            ELSE SPH_MIX_DISCHARGE_FIELD_TEMPLATES[field_type]
    IN  Format(template, segment_id)

\* the field type a time entity class asks for
FieldTypeOf(role) == IF role = "start_time" THEN "start_time" ELSE "stop_time"

TimeKey(dtype, kind, role) == GetFieldName(dtype, kind, FieldTypeOf(role), SegmentId)

AcChargeKey == <<"acChargeEnable">>

DataKeys ==
    {ApiKey(t, k, r) : t \in {"tlx", "mix"}, k \in Kinds, r \in NumberRoles}
    \cup {TimeKey(t, k, r) : t \in {"tlx", "mix"}, k \in Kinds, r \in TimeRoles}
    \cup {AcChargeKey}

(***************************************************************************)
(* Python values: floats are kept in tenths, times as hour/minute/second.  *)
(***************************************************************************)
\* int(x) of a float x given in tenths: truncation toward zero
IntOfTenths(t) == IF t >= 0 THEN t \div 10 ELSE -((-t) \div 10)

Time(h, m, s) == [h |-> h, m |-> m, s |-> s]

\* the result of an evaluation that may raise
Ok(v) == [exc |-> "none", v |-> v]
Raise(e) == [exc |-> e, v |-> 0]

\* int(float(text)): digits, or digits "." digits; anything else is a ValueError
IntFloat(text) ==
    LET parts == Split(text, ".")
    IN  IF Len(parts) = 1 /\ AllDigits(parts[1]) THEN Ok(DigitsVal(parts[1]))
        ELSE IF /\ Len(parts) = 2
                /\ parts[1] \o parts[2] # <<>>
                /\ \A i \in 1..2 : parts[i] = <<>> \/ AllDigits(parts[i])
             THEN Ok(DigitsVal(parts[1]))
        ELSE Raise("ValueError")

\* datetime.time.fromisoformat(text): "HH", "HH:MM" or "HH:MM:SS"
FromIsoFormat(text) ==
    LET parts == Split(text, ":")
        n == Len(parts)
        fld(i) == IF i <= n THEN DigitsVal(parts[i]) ELSE 0
    IN  IF /\ n \in 1..3
           /\ \A i \in 1..n : Len(parts[i]) = 2 /\ AllDigits(parts[i])
           /\ fld(1) < 24 /\ fld(2) < 60 /\ fld(3) < 60
        THEN Ok(Time(fld(1), fld(2), fld(3)))
        ELSE Raise("ValueError")

\* time.isoformat() of a time without microseconds
IsoFormat(t) == Pad2(t.h) \o <<":">> \o Pad2(t.m) \o <<":">> \o Pad2(t.s)

\* f"{value.hour:02d}:{value.minute:02d}"
TimeStr(t) == Pad2(t.h) \o <<":">> \o Pad2(t.m)

(***************************************************************************)
(* number.py: GrowattNumber.                                               *)
(***************************************************************************)
\* coordinator.get_value(description): the mapping's entry for api_key
GetValue(d, api_key) == d[api_key]

\* mutant: a value of 0 is taken for no value
NumberNativeValueZeroNone(d, dtype, kind, role) ==
    LET value == GetValue(d, ApiKey(dtype, kind, role))
    IN  IF value.ty = "absent" \/ (value.ty = "int" /\ value.i = 0) THEN VAbsent
        ELSE IF value.ty = "int" THEN VInt(value.i)
        ELSE VInt(DigitsVal(value.s))

\* GrowattNumber.native_value; None is an absent value
NumberNativeValue(d, dtype, kind, role) ==
    LET value == GetValue(d, ApiKey(dtype, kind, role))
    IN  IF value.ty = "absent" THEN VAbsent
        ELSE IF value.ty = "int" THEN VInt(value.i)
        ELSE VInt(DigitsVal(value.s))

\* the state text the host writes for a number entity
NumberState(d, dtype, kind, role) ==
    LET v == NumberNativeValue(d, dtype, kind, role)
    IN  IF v.ty = "absent" THEN T_unknown ELSE DecStr(v.i)

\* mutant: the value is rounded to the nearest integer
SetNativeValueDataRounded(d, dtype, kind, role, value) ==
    LET int_value == (value + 5) \div 10
        api_key == ApiKey(dtype, kind, role)
    IN  [d EXCEPT ![api_key] = VInt(int_value)]

\* coordinator.data after async_set_native_value(value), value in tenths
SetNativeValueData(d, dtype, kind, role, value) ==
    LET int_value == IntOfTenths(value)
        api_key == ApiKey(dtype, kind, role)
    IN  [d EXCEPT ![api_key] = VInt(int_value)]

(***************************************************************************)
(* time.py: the four time entities.                                        *)
(***************************************************************************)
\* the fallback of native_value: time(14, 0), time(16, 0), time(0, 0), time(0, 0)
DefaultTime(kind, role) ==
    IF kind = "charge"
    THEN (IF role = "start_time" THEN Time(14, 0, 0) ELSE Time(16, 0, 0))
    ELSE Time(0, 0, 0)

\* native_value of a time entity
TimeNativeValue(d, dtype, kind, role) ==
    LET field == TimeKey(dtype, kind, role)
        dflt == DefaultTime(kind, role)
        raw == IF d[field].ty = "absent" THEN VStr(TimeStr(dflt)) ELSE d[field]
        parts == Split(raw.s, ":")
    IN  IF raw.ty # "str" THEN Raise("AttributeError")
        ELSE IF /\ Len(parts) >= 2
                /\ AllDigits(parts[1]) /\ AllDigits(parts[2])
                /\ DigitsVal(parts[1]) < 24 /\ DigitsVal(parts[2]) < 60
             THEN Ok(Time(DigitsVal(parts[1]), DigitsVal(parts[2]), 0))
        ELSE Ok(dflt)

\* the state text the host writes for a time entity
TimeState(d, dtype, kind, role) ==
    LET v == TimeNativeValue(d, dtype, kind, role)
    IN  IF v.exc = "none" THEN IsoFormat(v.v) ELSE T_unknown

\* mutant: the value is stored under the start and the stop field
SetValueDataBoth(d, dtype, kind, role, value) ==
    [d EXCEPT ![TimeKey(dtype, kind, "start_time")] = VStr(TimeStr(value)),
              ![TimeKey(dtype, kind, "end_time")] = VStr(TimeStr(value))]

\* mutant: hour and minute are stored without zero padding
SetValueDataUnpadded(d, dtype, kind, role, value) ==
    LET field == TimeKey(dtype, kind, role)
        time_str == DecStr(value.h) \o <<":">> \o DecStr(value.m)
    IN  [d EXCEPT ![field] = VStr(time_str)]

\* coordinator.data after async_set_value(value)
SetValueData(d, dtype, kind, role, value) ==
    LET field == TimeKey(dtype, kind, role)
        time_str == TimeStr(value)
    IN  [d EXCEPT ![field] = VStr(time_str)]

(***************************************************************************)
(* button.py: GrowattApplySettingsButton.                                  *)
(***************************************************************************)
NoneState == [some |-> FALSE, state |-> <<>>]
Some(text) == [some |-> TRUE, state |-> text]

\* the literals of the if/elif chain of the registry loop
SuffixOf(kind, role) ==
    U \o KindChars(kind) \o U \o
    (CASE role = "power" -> W_power
       [] role = "stop_soc" -> W_stop_soc
       [] role = "start_time" -> W_start_time \o U \o <<"1">>
       [] role = "end_time" -> W_end_time \o U \o <<"1">>
       [] role = "period_enabled" -> W_period \o U \o <<"1">> \o U \o W_enabled)

\* the suffix literals, per kind and role
Suffixes == [k \in Kinds |-> [r \in Roles |-> SuffixOf(k, r)]]

\* the branch of the chain a unique id takes, "none" when it takes no branch
MatchedRole(uid, kind) ==
    IF EndsWith(uid, Suffixes[kind]["power"]) THEN "power"
    ELSE IF EndsWith(uid, Suffixes[kind]["stop_soc"]) THEN "stop_soc"
    ELSE IF EndsWith(uid, Suffixes[kind]["start_time"]) THEN "start_time"
    ELSE IF EndsWith(uid, Suffixes[kind]["end_time"]) THEN "end_time"
    ELSE IF EndsWith(uid, Suffixes[kind]["period_enabled"]) THEN "period_enabled"
    ELSE "none"

\* the condition of the registry loop
EntityMatches(e, uid, device_id) ==
    e.platform = "growatt_server" /\ Contains(device_id, uid)

\* the registry loop: per role the state of the last matching entity, or None
FindEntities(reg, st, device_id, kind) ==
    LET branch == [i \in 1..Len(reg) |->
                      LET uid == UniqueId(reg[i])
                      IN  IF EntityMatches(reg[i], uid, device_id)
                          THEN MatchedRole(uid, kind) ELSE "none"]
    IN  [r \in Roles |->
            LET hits == {i \in 1..Len(reg) : branch[i] = r}
            IN  IF hits = {} THEN NoneState
                ELSE st[CHOOSE i \in hits : \A j \in hits : j <= i]]

\* the entities each branch requires, in the order they are tested
RequiredRoles(dtype) ==
    IF dtype = "tlx" THEN <<"power", "stop_soc">>
    ELSE <<"start_time", "end_time", "period_enabled", "power", "stop_soc">>

\* the name appended to `missing` for a role
MissingName(device_id, kind, role) ==
    CASE role = "power" ->
            [domain |-> "number", name |-> device_id \o U \o KindChars(kind) \o U \o W_power]
      [] role = "stop_soc" ->
            [domain |-> "number", name |-> device_id \o U \o KindChars(kind) \o U \o W_stop_soc]
      [] role = "start_time" ->
            [domain |-> "time", name |-> device_id \o U \o KindChars(kind) \o U \o W_start_time]
      [] role = "end_time" ->
            [domain |-> "time", name |-> device_id \o U \o KindChars(kind) \o U \o W_end_time]
      [] role = "period_enabled" ->
            [domain |-> "switch",
             name |-> device_id \o U \o KindChars(kind) \o U \o W_period
                          \o U \o <<"1">> \o U \o W_enabled]

\* mutant: the `missing` list stops at the first entity that is missing
RECURSIVE MissingListFirstOnly(_, _, _, _)
MissingListFirstOnly(found, device_id, kind, roles) ==
    IF roles = <<>> THEN <<>>
    ELSE IF ~found[Head(roles)].some
    THEN <<MissingName(device_id, kind, Head(roles))>>
    ELSE MissingListFirstOnly(found, device_id, kind, Tail(roles))

\* the `missing` list built when not all(...) holds
RECURSIVE MissingList(_, _, _, _)
MissingList(found, device_id, kind, roles) ==
    IF roles = <<>> THEN <<>>
    ELSE (IF ~found[Head(roles)].some
          THEN <<MissingName(device_id, kind, Head(roles))>> ELSE <<>>)
         \o MissingList(found, device_id, kind, Tail(roles))

\* DeviceType chosen from coordinator.device_type
VendorDeviceType(dtype) == IF dtype = "tlx" THEN "MIN_TLX" ELSE "SPH_MIX"

\* OpenApiV1.ChargeDischargeParams carrying one value, all other fields 0 / False
ChargeDischargeParams(field, value) ==
    [f \in {"charge_power", "charge_stop_soc", "discharge_power", "discharge_stop_soc"}
        |-> IF f = field THEN value ELSE 0] @@ [ac_charge_enabled |-> FALSE]

WriteParameter(device_id, dtype, id, params) ==
    [op |-> "write_parameter", device_id |-> device_id,
     device_type |-> VendorDeviceType(dtype), id |-> id, params |-> params]

WriteTimeSegment(device_id, dtype, id, params) ==
    [op |-> "write_time_segment", device_id |-> device_id,
     device_type |-> VendorDeviceType(dtype), id |-> id, params |-> params]

\* mutant: one parameter record, carrying both values, is sent twice
TlxWritesBothValues(device_id, dtype, kind, power, soc) ==
    LET id_power == IF kind = "charge" THEN "charge_power" ELSE "discharge_power"
        id_soc == IF kind = "charge" THEN "charge_stop_soc" ELSE "discharge_stop_soc"
        params == [ChargeDischargeParams(id_power, power) EXCEPT ![id_soc] = soc]
    IN  << WriteParameter(device_id, dtype, id_power, params),
           WriteParameter(device_id, dtype, id_soc, params) >>

\* the two writes of the tlx branch
TlxWrites(device_id, dtype, kind, power, soc) ==
    LET id_power == IF kind = "charge" THEN "charge_power" ELSE "discharge_power"
        id_soc == IF kind = "charge" THEN "charge_stop_soc" ELSE "discharge_stop_soc"
    IN  << WriteParameter(device_id, dtype, id_power, ChargeDischargeParams(id_power, power)),
           WriteParameter(device_id, dtype, id_soc, ChargeDischargeParams(id_soc, soc)) >>

\* bool(int(coordinator.data.get("acChargeEnable", 0)))
MainsEnabled(d) ==
    LET v == d[AcChargeKey]
    IN  IF v.ty = "absent" THEN Ok(FALSE)
        ELSE IF v.ty = "int" THEN Ok(v.i # 0)
        ELSE IF AllDigits(v.s) THEN Ok(DigitsVal(v.s) # 0)
        ELSE Raise("ValueError")

\* the single write of the mix branch
MixWrites(device_id, dtype, kind, power, soc, start, end, enabled, mains) ==
    LET window == [start_hour |-> start.h, start_minute |-> start.m,
                   end_hour |-> end.h, end_minute |-> end.m,
                   enabled |-> enabled, segment_id |-> 1]
    IN  IF kind = "charge"
        THEN << WriteTimeSegment(device_id, dtype, "mix_ac_charge_time_period",
                    [charge_power |-> power, charge_stop_soc |-> soc,
                     mains_enabled |-> mains] @@ window) >>
        ELSE << WriteTimeSegment(device_id, dtype, "mix_ac_discharge_time_period",
                    [discharge_power |-> power, discharge_stop_soc |-> soc] @@ window) >>

Plan(result, missing, exc, writes) ==
    [result |-> result, missing |-> missing, exc |-> exc, writes |-> writes]

\* _apply_charge_settings / _apply_discharge_settings up to the first await:
\* what the press will do
ApplySettings(found, d, dtype, v1, device_id, kind) ==
    LET missing == MissingList(found, device_id, kind, RequiredRoles(dtype))
        power == IntFloat(found["power"].state)
        soc == IntFloat(found["stop_soc"].state)
        start == FromIsoFormat(found["start_time"].state)
        end == FromIsoFormat(found["end_time"].state)
        enabled == found["period_enabled"].state = T_on
        mains == IF kind = "charge" THEN MainsEnabled(d) ELSE Ok(FALSE)
    IN  IF ~v1 THEN Plan("noop", <<>>, "none", <<>>)
        ELSE IF missing # <<>> THEN Plan("missing", missing, "none", <<>>)
        ELSE IF dtype = "tlx"
        THEN (IF power.exc # "none" THEN Plan("raise", <<>>, power.exc, <<>>)
              ELSE IF soc.exc # "none" THEN Plan("raise", <<>>, soc.exc, <<>>)
              ELSE Plan("writes", <<>>, "none",
                        TlxWrites(device_id, dtype, kind, power.v, soc.v)))
        ELSE (IF start.exc # "none" THEN Plan("raise", <<>>, start.exc, <<>>)
              ELSE IF end.exc # "none" THEN Plan("raise", <<>>, end.exc, <<>>)
              ELSE IF power.exc # "none" THEN Plan("raise", <<>>, power.exc, <<>>)
              ELSE IF soc.exc # "none" THEN Plan("raise", <<>>, soc.exc, <<>>)
              ELSE IF mains.exc # "none" THEN Plan("raise", <<>>, mains.exc, <<>>)
              ELSE Plan("writes", <<>>, "none",
                        MixWrites(device_id, dtype, kind, power.v, soc.v,
                                  start.v, end.v, enabled, mains.v)))

(***************************************************************************)
(* The vendor API and the device behind it.                                *)
(***************************************************************************)
\* texts of the GrowattV1ApiError a vendor call may raise
ErrTexts == {"error_code 10011", "error_code 10012"}

NoSegment == [segment_id |-> 0]

DeviceInit ==
    [charge_power |-> 51, charge_stop_soc |-> 52,
     discharge_power |-> 53, discharge_stop_soc |-> 54,
     mix_ac_charge_time_period |-> NoSegment,
     mix_ac_discharge_time_period |-> NoSegment]

\* the effect of a successful vendor write on the device
ApplyWrite(dev, w) ==
    IF w.op = "write_parameter"
    THEN [dev EXCEPT ![w.id] = w.params[w.id]]
    ELSE [dev EXCEPT ![w.id] = w.params]

(***************************************************************************)
(* The state of one button's press.                                        *)
(***************************************************************************)
NoError == [kind |-> "none", missing |-> <<>>, setting_type |-> "", text |-> ""]

\* HomeAssistantError("Could not find all <kind> setting entities. Missing: ...")
MissingError(kind, missing) ==
    [kind |-> "HomeAssistantError", missing |-> missing,
     setting_type |-> kind, text |-> ""]

\* mutant: the message always names the charge settings
ApiErrorChargeOnly(kind, err) ==
    [kind |-> "HomeAssistantError", missing |-> <<>>,
     setting_type |-> "charge", text |-> err]

\* HomeAssistantError(f"Error applying {setting_type} settings: {err}")
ApiError(kind, err) ==
    [kind |-> "HomeAssistantError", missing |-> <<>>,
     setting_type |-> kind, text |-> err]

\* an exception that async_press does not catch
Uncaught(exc) == [kind |-> exc, missing |-> <<>>, setting_type |-> "", text |-> ""]

NoWrite == [op |-> "none"]
CallEv(w) == [ev |-> "call", w |-> w, res |-> ""]
ReturnEv(w, res) == [ev |-> "return", w |-> w, res |-> res]
RefreshEv == [ev |-> "refresh", w |-> NoWrite, res |-> ""]

IsCall(e) == e.ev = "call"
IsReturn(e) == e.ev = "return"
IsRefresh(e) == e.ev = "refresh"
IsFailure(e) == e.ev = "return" /\ e.res # "ok"

CallsOf(log) == SelectSeq(log, IsCall)
RefreshesOf(log) == SelectSeq(log, IsRefresh)
FailuresOf(log) == SelectSeq(log, IsFailure)

NoneFound == [r \in Roles |-> NoneState]

\* pc: "idle" or "writing" (awaiting the executor job of `inflight`);
\* found: the five *_entity locals; queue: the writes still to be started;
\* log: the vendor calls, their returns and the refresh request of the press;
\* outcome / error: how the last press ended
IdleProc ==
    [pc |-> "idle", presses |-> 0, found |-> NoneFound,
     inflight |-> <<>>, queue |-> <<>>,
     log |-> <<>>, outcome |-> "none", error |-> NoError]

\* async_press up to its first await
StartPress(p, found, plan, kind) ==
    LET q == [p EXCEPT !.presses = @ + 1, !.found = found, !.log = <<>>,
                       !.error = NoError]
    IN  CASE plan.result = "noop" ->
                [q EXCEPT !.log = <<RefreshEv>>, !.outcome = "success"]
          [] plan.result = "missing" ->
                [q EXCEPT !.outcome = "missing",
                          !.error = MissingError(kind, plan.missing)]
          [] plan.result = "raise" ->
                [q EXCEPT !.outcome = "exception", !.error = Uncaught(plan.exc)]
          [] plan.result = "writes" ->
                [q EXCEPT !.pc = "writing",
                          !.inflight = <<Head(plan.writes)>>,
                          !.queue = Tail(plan.writes),
                          !.log = <<CallEv(Head(plan.writes))>>,
                          !.outcome = "pending"]

\* mutant: the refresh is requested after every write that returned
ResumeOkRefreshEach(p) ==
    LET done == Append(Append(p.log, ReturnEv(p.inflight[1], "ok")), RefreshEv)
    IN  IF p.queue # <<>>
        THEN [p EXCEPT !.inflight = <<Head(p.queue)>>, !.queue = Tail(p.queue),
                       !.log = Append(done, CallEv(Head(p.queue)))]
        ELSE [p EXCEPT !.pc = "idle", !.inflight = <<>>,
                       !.log = done, !.outcome = "success"]

\* async_press resumed by a vendor write that returned
ResumeOk(p) ==
    LET done == Append(p.log, ReturnEv(p.inflight[1], "ok"))
    IN  IF p.queue # <<>>
        THEN [p EXCEPT !.inflight = <<Head(p.queue)>>, !.queue = Tail(p.queue),
                       !.log = Append(done, CallEv(Head(p.queue)))]
        ELSE [p EXCEPT !.pc = "idle", !.inflight = <<>>,
                       !.log = Append(done, RefreshEv),
                       !.outcome = "success"]

\* mutant: a failure after a write that went through is answered by a write
\* that resets the value written
ResumeErrRollback(p, kind, err) ==
    LET failed == Append(p.log, ReturnEv(p.inflight[1], err))
        first == p.log[1].w
        undo == [first EXCEPT !.params = ChargeDischargeParams(first.id, 0)]
    IN  IF Len(p.log) >= 2
        THEN [p EXCEPT !.inflight = <<undo>>, !.queue = <<>>,
                       !.log = Append(failed, CallEv(undo))]
        ELSE [p EXCEPT !.pc = "idle", !.inflight = <<>>, !.queue = <<>>,
                       !.log = failed,
                       !.outcome = "api_error", !.error = ApiError(kind, err)]

\* mutant: a write that failed is attempted a second time
ResumeErrRetry(p, kind, err) ==
    LET failed == Append(p.log, ReturnEv(p.inflight[1], err))
    IN  IF FailuresOf(p.log) = <<>>
        THEN [p EXCEPT !.log = Append(failed, CallEv(p.inflight[1]))]
        ELSE [p EXCEPT !.pc = "idle", !.inflight = <<>>, !.queue = <<>>,
                       !.log = failed,
                       !.outcome = "api_error", !.error = ApiError(kind, err)]

\* mutant: after a write that failed the press goes on to its next write
ResumeErrContinue(p, kind, err) ==
    LET failed == Append(p.log, ReturnEv(p.inflight[1], err))
    IN  IF p.queue # <<>>
        THEN [p EXCEPT !.inflight = <<Head(p.queue)>>, !.queue = Tail(p.queue),
                       !.log = Append(failed, CallEv(Head(p.queue)))]
        ELSE [p EXCEPT !.pc = "idle", !.inflight = <<>>, !.queue = <<>>,
                       !.log = failed,
                       !.outcome = "api_error", !.error = ApiError(kind, err)]

\* async_press resumed by a vendor write that raised GrowattV1ApiError
ResumeErr(p, kind, err) ==
    [p EXCEPT !.pc = "idle", !.inflight = <<>>, !.queue = <<>>,
              !.log = Append(p.log, ReturnEv(p.inflight[1], err)),
              !.outcome = "api_error", !.error = ApiError(kind, err)]

(***************************************************************************)
(* Initial states.                                                         *)
(***************************************************************************)
\* float values (in tenths) the number entities are set to
NumberInputs == {79}
\* time values the time entities are set to
TimeInputs == {Time(7, 5, 30)}

\* entities of the pressed device that are not registered: any subset of
\* the entities of one kind that the device type's branch requires
AbsentSets(dtype) ==
    LET required == {RequiredRoles(dtype)[i] : i \in 1..Len(RequiredRoles(dtype))}
    IN  {S \in SUBSET AllEntities :
            /\ \A e \in S : e[2] \in required
            /\ \E k \in Kinds : \A e \in S : e[1] = k}

\* a coordinator mapping as a refresh leaves it
DataFull(dtype) ==
    [k \in DataKeys |->
        CASE k = ApiKey(dtype, "charge", "power") -> VInt(51)
          [] k = ApiKey(dtype, "charge", "stop_soc") -> VInt(52)
          [] k = ApiKey(dtype, "discharge", "power") -> VInt(53)
          [] k = ApiKey(dtype, "discharge", "stop_soc") -> VInt(54)
          [] k = TimeKey(dtype, "charge", "start_time") -> VStr(TimeStr(Time(1, 10, 0)))
          [] k = TimeKey(dtype, "charge", "end_time") -> VStr(TimeStr(Time(2, 20, 0)))
          [] k = TimeKey(dtype, "discharge", "start_time") /\ dtype # "tlx" ->
                VStr(TimeStr(Time(3, 30, 0)))
          [] k = TimeKey(dtype, "discharge", "end_time") /\ dtype # "tlx" ->
                VStr(TimeStr(Time(4, 40, 0)))
          [] k = AcChargeKey -> VInt(1)
          [] OTHER -> VAbsent]

\* a coordinator mapping that holds no field yet
DataEmpty == [k \in DataKeys |-> VAbsent]

\* the state text of a registry entry
StateOf(e, d, dtype) ==
    IF e.platform # "growatt_server" THEN Some(DecStr(99))
    ELSE IF e.dev # DeviceId
    THEN (IF e.role \in NumberRoles THEN Some(DecStr(33))
          ELSE IF e.role \in TimeRoles THEN Some(IsoFormat(Time(3, 3, 0)))
          ELSE Some(T_off))
    ELSE IF e.role \in NumberRoles THEN Some(NumberState(d, dtype, e.kind, e.role))
    ELSE IF e.role \in TimeRoles THEN Some(TimeState(d, dtype, e.kind, e.role))
    ELSE IF e.kind = "charge" THEN Some(T_on) ELSE Some(T_off)

\* the second device is of a type that gets number entities only
\* (number.py creates them for every V1 device, time.py for mix and tlx only)
OtherAbsent == {e \in AllEntities : e[2] \notin NumberRoles}

RegistryOf(absent, other_id) ==
    EntriesOf(DeviceId, absent, 1)
        \o EntriesOf(other_id, OtherAbsent, 1)
        \o << Entry("other_integration", DeviceId, "charge", "power"),
              Entry("other_integration", DeviceId, "discharge", "power") >>

NoCall == [op |-> "none"]

\* no entity has been edited since the last refresh
NoEdits == [k \in Kinds |-> [r \in NumberRoles \cup TimeRoles |-> <<>>]]

\* a V1 client with any set of entities missing, a V1 client before the first
\* refresh, or a client of the classic API
InitWith(other_id) ==
    /\ device_type \in {"tlx", "mix"}
    /\ \/ /\ api_is_v1 = TRUE
          /\ \E absent \in AbsentSets(device_type) :
                registry = RegistryOf(absent, other_id)
          /\ data = DataFull(device_type)
       \/ /\ api_is_v1 = TRUE
          /\ registry = RegistryOf({}, other_id)
          /\ data = DataEmpty
       \/ /\ api_is_v1 = FALSE
          /\ registry = RegistryOf({}, other_id)
          /\ data = DataFull(device_type)
    /\ states = [i \in 1..Len(registry) |-> StateOf(registry[i], data, device_type)]
    /\ device = DeviceInit
    /\ proc = [b \in Kinds |-> IdleProc]
    /\ edits = 0
    /\ edited = NoEdits
    /\ call = NoCall
    /\ returned = <<>>

Init == InitWith(OtherDeviceId)

(***************************************************************************)
(* Actions.                                                                *)
(***************************************************************************)
\* PARALLEL_UPDATES of the number platform
NumberParallelUpdates == 1
\* button.py sets no PARALLEL_UPDATES: the host then runs its entities' calls
\* without a semaphore, which the host also does for a value of 0
ButtonParallelUpdates == 0

\* the host's entity call gate: a platform's semaphore of `limit` permits
MayEnter(limit, running) == limit = 0 \/ running < limit

\* calls of the number platform that hold the gate: async_set_native_value
\* never awaits, so none is in progress when another starts
RunningEdits == 0

\* presses of the button platform that hold the gate
RunningPresses == Cardinality({b \in Kinds : proc[b].pc = "writing"})

\* GrowattApplySettingsButton.async_press, to its first await or its end
Press(b) ==
    /\ proc[b].pc = "idle"
    /\ proc[b].presses < MaxPresses
    /\ MayEnter(ButtonParallelUpdates, RunningPresses)
    /\ LET found == FindEntities(registry, states, DeviceId, b)
           plan == ApplySettings(found, data, device_type, api_is_v1, DeviceId, b)
       IN  proc' = [proc EXCEPT ![b] = StartPress(proc[b], found, plan, b)]
    /\ UNCHANGED <<config, states, data, device, edits, edited, pure>>

\* the vendor write in flight returns; the press goes on to its next await or ends
WriteReturns(b) ==
    /\ proc[b].pc = "writing"
    /\ device' = ApplyWrite(device, proc[b].inflight[1])
    /\ proc' = [proc EXCEPT ![b] = ResumeOk(proc[b])]
    /\ UNCHANGED <<config, states, data, edits, edited, pure>>

\* the vendor write in flight raises GrowattV1ApiError
WriteFails(b, err) ==
    /\ proc[b].pc = "writing"
    /\ proc' = [proc EXCEPT ![b] = ResumeErr(proc[b], b, err)]
    /\ UNCHANGED <<config, states, data, device, edits, edited, pure>>

\* GrowattNumber.async_set_native_value
SetNativeValue(kind, role, value) ==
    /\ edits < MaxEdits
    /\ MayEnter(NumberParallelUpdates, RunningEdits)
    /\ LET own == IndexOf(registry, kind, role)
           d == SetNativeValueData(data, device_type, kind, role, value)
       IN  /\ own # 0
           /\ data' = d
           /\ states' = [states EXCEPT ![own] =
                             Some(NumberState(d, device_type, kind, role))]
    /\ edits' = edits + 1
    /\ edited' = [edited EXCEPT ![kind][role] = <<value>>]
    /\ UNCHANGED <<config, device, proc, pure>>

\* async_set_value of a time entity
SetValue(kind, role, value) ==
    /\ edits < MaxEdits
    /\ LET own == IndexOf(registry, kind, role)
           d == SetValueData(data, device_type, kind, role, value)
       IN  /\ own # 0
           /\ data' = d
           /\ states' = [states EXCEPT ![own] =
                             Some(TimeState(d, device_type, kind, role))]
    /\ edits' = edits + 1
    /\ edited' = [edited EXCEPT ![kind][role] = <<value>>]
    /\ UNCHANGED <<config, device, proc, pure>>

Next ==
    \/ \E b \in Kinds : Press(b)
    \/ \E b \in Kinds : WriteReturns(b)
    \/ \E b \in Kinds, err \in ErrTexts : WriteFails(b, err)
    \/ \E k \in Kinds, r \in NumberRoles, v \in NumberInputs : SetNativeValue(k, r, v)
    \/ \E k \in Kinds, r \in TimeRoles, v \in TimeInputs : SetValue(k, r, v)

Spec == Init /\ [][Next]_vars

(***************************************************************************)
(* The same program with a second device whose id contains the id of the  *)
(* pressed device.                                                         *)
(***************************************************************************)
OverlapInit ==
    /\ InitWith(OverlappingDeviceId)
    /\ api_is_v1
    /\ data = DataFull(device_type)

SpecOverlap == OverlapInit /\ [][Next]_vars

(***************************************************************************)
(* Field-name selection as a function of its arguments: a second           *)
(* specification, whose only action calls _get_field_name.                 *)
(***************************************************************************)
\* values of coordinator.device_type
DeviceTypes == {"tlx", "mix", "storage", "inverter"}
FieldTypes == {"start_time", "stop_time", "enabled"}

FieldsInit ==
    /\ device_type = "tlx"
    /\ api_is_v1 = TRUE
    /\ registry = RegistryOf({}, OtherDeviceId)
    /\ data = DataFull(device_type)
    /\ states = [i \in 1..Len(registry) |-> StateOf(registry[i], data, device_type)]
    /\ device = DeviceInit
    /\ proc = [b \in Kinds |-> IdleProc]
    /\ edits = 0
    /\ edited = NoEdits
    /\ call = NoCall
    /\ returned = <<>>

\* entity._get_field_name(field_type) of a time entity of `kind` created with
\* segment_id on a coordinator of device type dtype
CallGetFieldName(dtype, kind, field_type, segment_id) ==
    /\ call' = [op |-> "_get_field_name", device_type |-> dtype, kind |-> kind,
                field_type |-> field_type, segment_id |-> segment_id]
    /\ returned' = GetFieldName(dtype, kind, field_type, segment_id)
    /\ UNCHANGED <<config, states, data, device, proc, edits, edited>>

FieldsNext ==
    \E t \in DeviceTypes, k \in Kinds, f \in FieldTypes, n \in 1..MaxSegment :
        CallGetFieldName(t, k, f, n)

SpecFields == FieldsInit /\ [][FieldsNext]_vars

(***************************************************************************)
(* The edits of the number and time entities over a range of values: a    *)
(* specification whose actions are the two edit handlers.                  *)
(***************************************************************************)
\* float values (in tenths) of the declared range 0..100
NumberValues == {0, 4, 10, 79, 505, 999, 1000}
\* time-of-day values
TimeValues == {Time(h, m, sec) : h \in {0, 7, 23}, m \in {0, 5, 59}, sec \in {0, 30}}

EditInit ==
    /\ device_type \in {"tlx", "mix"}
    /\ api_is_v1 = TRUE
    /\ registry = RegistryOf({}, OtherDeviceId)
    /\ data \in {DataFull(device_type), DataEmpty}
    /\ states = [i \in 1..Len(registry) |-> StateOf(registry[i], data, device_type)]
    /\ device = DeviceInit
    /\ proc = [b \in Kinds |-> IdleProc]
    /\ edits = 0
    /\ edited = NoEdits
    /\ call = NoCall
    /\ returned = <<>>

EditNext ==
    \/ \E k \in Kinds, r \in NumberRoles, v \in NumberValues : SetNativeValue(k, r, v)
    \/ \E k \in Kinds, r \in TimeRoles, t \in TimeValues : SetValue(k, r, t)

SpecEdit == EditInit /\ [][EditNext]_vars

(***************************************************************************)
(* Reading the time entities on whatever the mapping holds: a              *)
(* specification whose action is native_value.                             *)
(***************************************************************************)
\* what a refresh may leave under a time field: nothing, texts, a number, null
RawValues ==
    { VAbsent,
      VStr(<<"0", "7", ":", "0", "5">>),
      VStr(<<"7", ":", "5">>),
      VStr(<<"0", "7", ":", "0", "5", ":", "3", "0">>),
      VStr(<<"0", "7", "0", "5">>),
      VStr(<<"a", "b", ":", "c", "d">>),
      VStr(<<"2", "4", ":", "0", "0">>),
      VStr(<<"1", "2", ":", "6", "0">>),
      VStr(<<>>),
      VInt(705),
      VNone }

ReadInit ==
    /\ device_type \in {"tlx", "mix"}
    /\ api_is_v1 = TRUE
    /\ registry = RegistryOf({}, OtherDeviceId)
    /\ \E k \in Kinds, r \in TimeRoles, raw \in RawValues :
          data = [DataFull(device_type) EXCEPT ![TimeKey(device_type, k, r)] = raw]
    /\ states = [i \in 1..Len(registry) |-> StateOf(registry[i], data, device_type)]
    /\ device = DeviceInit
    /\ proc = [b \in Kinds |-> IdleProc]
    /\ edits = 0
    /\ edited = NoEdits
    /\ call = NoCall
    /\ returned = <<>>

\* native_value of the time entity of `kind` and `role` is read
NativeValue(kind, role) ==
    /\ call' = [op |-> "native_value", kind |-> kind, role |-> role]
    /\ returned' = TimeNativeValue(data, device_type, kind, role)
    /\ UNCHANGED <<config, states, data, device, proc, edits, edited>>

ReadNext == \E k \in Kinds, r \in TimeRoles : NativeValue(k, r)

SpecRead == ReadInit /\ [][ReadNext]_vars

(***************************************************************************)
(* Setup of the three platforms for the devices of a config entry: a       *)
(* specification whose actions call the async_setup_entry functions.       *)
(***************************************************************************)
\* values of coordinator.api_version
ApiVersions == {"v1", "classic"}

\* runtime_data.devices.values(): the coordinators of up to MaxDevices devices
Coordinators == [device_type : DeviceTypes, api_version : ApiVersions]

RECURSIVE DeviceLists(_)
DeviceLists(n) ==
    IF n = 0 THEN {<<>>}
    ELSE DeviceLists(n - 1)
         \cup {Append(l, c) : l \in {m \in DeviceLists(n - 1) : Len(m) = n - 1},
                               c \in Coordinators}

\* an entity handed to async_add_entities: its platform, the index of its
\* device in runtime_data.devices, and what it was constructed with
Entity(platform, dev, kind, role) ==
    [platform |-> platform, dev |-> dev, kind |-> kind, role |-> role]

\* the descriptions of MIN_NUMBER_TYPES / MIX_NUMBER_TYPES, in order
NumberTypes ==
    << <<"charge", "power">>, <<"charge", "stop_soc">>,
       <<"discharge", "power">>, <<"discharge", "stop_soc">> >>

\* number.async_setup_entry: the entities added
RECURSIVE NumberSetupEntry(_, _)
NumberSetupEntry(devices, i) ==
    IF i > Len(devices) THEN <<>>
    ELSE (IF devices[i].api_version = "v1"
          THEN [j \in 1..Len(NumberTypes) |->
                   Entity("number", i, NumberTypes[j][1], NumberTypes[j][2])]
          ELSE <<>>)
         \o NumberSetupEntry(devices, i + 1)

\* button.async_setup_entry: the entities added
RECURSIVE ButtonSetupEntry(_, _)
ButtonSetupEntry(devices, i) ==
    IF i > Len(devices) THEN <<>>
    ELSE (IF devices[i].device_type \in {"mix", "tlx"} /\ devices[i].api_version = "v1"
          THEN << Entity("button", i, "charge", "apply"),
                  Entity("button", i, "discharge", "apply") >>
          ELSE <<>>)
         \o ButtonSetupEntry(devices, i + 1)

\* time.async_setup_entry: the entities added
RECURSIVE TimeSetupEntry(_, _)
TimeSetupEntry(devices, i) ==
    LET four == << Entity("time", i, "charge", "start_time"),
                   Entity("time", i, "charge", "end_time"),
                   Entity("time", i, "discharge", "start_time"),
                   Entity("time", i, "discharge", "end_time") >>
    IN  IF i > Len(devices) THEN <<>>
        ELSE (IF devices[i].api_version = "v1"
              THEN (IF devices[i].device_type = "mix" THEN four
                    ELSE IF devices[i].device_type = "tlx" THEN four
                    ELSE <<>>)
              ELSE <<>>)
             \o TimeSetupEntry(devices, i + 1)

SetupInit ==
    /\ device_type = "tlx"
    /\ api_is_v1 = TRUE
    /\ registry = <<>>
    /\ data = DataEmpty
    /\ states = <<>>
    /\ device = DeviceInit
    /\ proc = [b \in Kinds |-> IdleProc]
    /\ edits = 0
    /\ edited = NoEdits
    /\ call = NoCall
    /\ returned = <<>>

SetupCall(platform, devices) ==
    [op |-> "async_setup_entry", platform |-> platform, devices |-> devices]

NumberSetup(devices) ==
    /\ call' = SetupCall("number", devices)
    /\ returned' = NumberSetupEntry(devices, 1)
    /\ UNCHANGED <<config, states, data, device, proc, edits, edited>>

ButtonSetup(devices) ==
    /\ call' = SetupCall("button", devices)
    /\ returned' = ButtonSetupEntry(devices, 1)
    /\ UNCHANGED <<config, states, data, device, proc, edits, edited>>

TimeSetup(devices) ==
    /\ call' = SetupCall("time", devices)
    /\ returned' = TimeSetupEntry(devices, 1)
    /\ UNCHANGED <<config, states, data, device, proc, edits, edited>>

SetupNext ==
    \E devices \in DeviceLists(MaxDevices) :
        \/ NumberSetup(devices)
        \/ ButtonSetup(devices)
        \/ TimeSetup(devices)

SpecSetup == SetupInit /\ [][SetupNext]_vars

(***************************************************************************)
(* Properties.                                                             *)
(***************************************************************************)
RequiredSet(dtype) == {RequiredRoles(dtype)[i] : i \in 1..Len(RequiredRoles(dtype))}

\* the required entities of the pressed device that are not registered
OwnAbsent(b) == {r \in RequiredSet(device_type) : IndexOf(registry, b, r) = 0}

\* the entity a validation error is expected to name for a role
ExpectedName(b, r) ==
    IF r \in NumberRoles
    THEN [domain |-> "number", name |-> NumberUniqueId(DeviceId, b, r)]
    ELSE IF r \in TimeRoles
    THEN [domain |-> "time",
          name |-> LET uid == TimeUniqueId(DeviceId, b, r, SegmentId)
                   IN  SubSeq(uid, 1, Len(uid) - 2)]
    ELSE [domain |-> "switch", name |-> SwitchUniqueId(DeviceId, b)]

IdPower(b) == IF b = "charge" THEN "charge_power" ELSE "discharge_power"
IdSoc(b) == IF b = "charge" THEN "charge_stop_soc" ELSE "discharge_stop_soc"

\* the values a press read from the entities it found
ReadPower(b) == IntFloat(proc[b].found["power"].state)
ReadSoc(b) == IntFloat(proc[b].found["stop_soc"].state)
ReadStart(b) == FromIsoFormat(proc[b].found["start_time"].state)
ReadEnd(b) == FromIsoFormat(proc[b].found["end_time"].state)

\* every entity the branch requires was found and its state parses
AllParseable(b) ==
    /\ \A r \in RequiredSet(device_type) : proc[b].found[r].some
    /\ ReadPower(b).exc = "none" /\ ReadSoc(b).exc = "none"
    /\ device_type # "tlx" => ReadStart(b).exc = "none" /\ ReadEnd(b).exc = "none"

\* C1: with a V1 client, a press of an apply button of a device that lacks
\* some of the entities its branch requires (tlx: power, stop_soc; mix:
\* start_time, end_time, period_enabled, power, stop_soc) ends with a
\* validation error that names exactly the lacking entities, and the press
\* has issued no vendor write and no refresh request.
C1_MissingEntitiesReported ==
    \A b \in Kinds :
        (api_is_v1 /\ proc[b].presses > 0 /\ OwnAbsent(b) # {}) =>
            LET named == proc[b].error.missing
            IN  /\ proc[b].pc = "idle"
                /\ proc[b].outcome = "missing"
                /\ proc[b].error.kind = "HomeAssistantError"
                /\ {named[i] : i \in 1..Len(named)}
                       = {ExpectedName(b, r) : r \in OwnAbsent(b)}
                /\ Len(named) = Cardinality(OwnAbsent(b))
                /\ proc[b].log = <<>>

\* C1 witness: a mix press ended with a validation error naming two of the
\* five required entities.
C1_Witness ==
    \E b \in Kinds :
        /\ api_is_v1 /\ device_type = "mix"
        /\ proc[b].outcome = "missing"
        /\ Cardinality(OwnAbsent(b)) = 2
        /\ Len(proc[b].error.missing) = 2

\* C2: with a V1 client, a press that found and parsed every required entity
\* and met no vendor failure ends in success, and a press that ended in
\* success has issued, on tlx, exactly two write_parameter calls (the power
\* alone under '<kind>_power', then the stop-SOC alone under
\* '<kind>_stop_soc', all other fields 0 / False) and, on mix, exactly one
\* write_time_segment call carrying power, stop-SOC, start and end
\* hour/minute, the enabled flag and segment_id 1.
C2_WritesOfAPress ==
    \A b \in Kinds :
        LET calls == CallsOf(proc[b].log)
            zero == [charge_power |-> 0, charge_stop_soc |-> 0,
                     discharge_power |-> 0, discharge_stop_soc |-> 0,
                     ac_charge_enabled |-> FALSE]
            window == [start_hour |-> ReadStart(b).v.h,
                       start_minute |-> ReadStart(b).v.m,
                       end_hour |-> ReadEnd(b).v.h,
                       end_minute |-> ReadEnd(b).v.m,
                       enabled |-> (proc[b].found["period_enabled"].state = T_on),
                       segment_id |-> 1]
        IN  /\ ( /\ api_is_v1 /\ proc[b].pc = "idle" /\ proc[b].presses > 0
                 /\ AllParseable(b) /\ FailuresOf(proc[b].log) = <<>> )
                    => proc[b].outcome = "success"
            /\ (api_is_v1 /\ proc[b].outcome = "success") =>
                 IF device_type = "tlx"
                 THEN /\ Len(calls) = 2
                      /\ calls[1].w.op = "write_parameter"
                      /\ calls[1].w.id = IdPower(b)
                      /\ calls[1].w.params
                            = [zero EXCEPT ![IdPower(b)] = ReadPower(b).v]
                      /\ calls[2].w.op = "write_parameter"
                      /\ calls[2].w.id = IdSoc(b)
                      /\ calls[2].w.params
                            = [zero EXCEPT ![IdSoc(b)] = ReadSoc(b).v]
                 ELSE /\ Len(calls) = 1
                      /\ calls[1].w.op = "write_time_segment"
                      /\ \A f \in DOMAIN window :
                            calls[1].w.params[f] = window[f]
                      /\ calls[1].w.params[IdPower(b)] = ReadPower(b).v
                      /\ calls[1].w.params[IdSoc(b)] = ReadSoc(b).v

\* C2 witness: on tlx both buttons were pressed with success, two writes each.
C2_Witness ==
    /\ api_is_v1 /\ device_type = "tlx"
    /\ \A b \in Kinds :
          proc[b].outcome = "success" /\ Len(CallsOf(proc[b].log)) = 2

\* C3: on tlx, once the power write of a press has returned and its stop-SOC
\* write has failed with a vendor API error, the press has ended in an
\* error, it issues nothing after the failed write (no undoing write), and
\* the device's power setting is the value the press wrote.
C3_FirstWriteStaysApplied ==
    \A b \in Kinds :
        LET log == proc[b].log
        IN  ( /\ device_type = "tlx" /\ Len(log) >= 4
              /\ IsReturn(log[2]) /\ log[2].res = "ok"
              /\ IsFailure(log[4]) ) =>
                /\ Len(log) = 4
                /\ proc[b].pc = "idle"
                /\ proc[b].inflight = <<>> /\ proc[b].queue = <<>>
                /\ proc[b].outcome = "api_error"
                /\ proc[b].error.kind = "HomeAssistantError"
                /\ log[1].w.id = IdPower(b) /\ log[3].w.id = IdSoc(b)
                /\ device[IdPower(b)] = ReadPower(b).v

\* C3 witness: a tlx press whose second write failed after an edit changed the
\* power, so that the device holds a newly written power.
C3_Witness ==
    \E b \in Kinds :
        /\ device_type = "tlx" /\ proc[b].outcome = "api_error"
        /\ Len(proc[b].log) = 4
        /\ device[IdPower(b)] = 7
        /\ device[IdSoc(b)] = DeviceInit[IdSoc(b)]

\* C4: a press has requested a refresh exactly once if it ended in success and
\* never otherwise; the request is the last thing the press does, after its
\* last vendor write has returned; a press that ended in a missing-field
\* error or a vendor API error has requested none.
C4_RefreshOnlyAfterSuccess ==
    \A b \in Kinds :
        LET log == proc[b].log
            n == Len(RefreshesOf(log))
        IN  /\ proc[b].pc = "writing" => n = 0
            /\ (proc[b].pc = "idle" /\ proc[b].presses > 0) =>
                  n = (IF proc[b].outcome = "success" THEN 1 ELSE 0)
            /\ proc[b].outcome \in {"missing", "api_error", "exception"} => n = 0
            /\ n = 1 =>
                  /\ IsRefresh(log[Len(log)])
                  /\ Len(log) > 1 =>
                        IsReturn(log[Len(log) - 1]) /\ log[Len(log) - 1].res = "ok"
                  /\ Len(CallsOf(log)) = Len(SelectSeq(log, IsReturn))

\* C4 witness: one press ended in success with its refresh request after two
\* returned writes, the other ended in a vendor error without one.
C4_Witness ==
    \E b, c \in Kinds :
        /\ proc[b].outcome = "success" /\ Len(proc[b].log) = 5
        /\ IsRefresh(proc[b].log[5])
        /\ proc[c].outcome = "api_error" /\ RefreshesOf(proc[c].log) = <<>>

\* C5: every press of an apply button ends in success, in a missing-field
\* validation error or in a host-level error wrapping a vendor API failure;
\* no other error leaves async_press, whatever the states of the entities.
C5_OnlyTwoErrorKinds ==
    \A b \in Kinds :
        proc[b].outcome \in {"none", "pending", "success", "missing", "api_error"}

\* C6: at most one press of a device has a vendor write in flight.
C6_OneWriteInFlight ==
    Cardinality({b \in Kinds : proc[b].pc = "writing"}) <= 1

\* C7: no vendor write is retried: a press attempts each of its writes at most
\* once (at most two write_parameter calls with different ids on tlx, at most
\* one write_time_segment call on mix), and a failed attempt ends the press
\* with one error.
C7_NoRetry ==
    \A b \in Kinds :
        LET log == proc[b].log
            calls == CallsOf(log)
        IN  /\ Len(calls) <= (IF device_type = "tlx" THEN 2 ELSE 1)
            /\ \A i, j \in 1..Len(calls) :
                  i # j => calls[i].w.id # calls[j].w.id
            /\ \A i \in 1..Len(calls) :
                  calls[i].w.op = (IF device_type = "tlx" THEN "write_parameter"
                                   ELSE "write_time_segment")
            /\ Len(FailuresOf(log)) <= 1
            /\ FailuresOf(log) # <<>> =>
                  /\ IsFailure(log[Len(log)])
                  /\ proc[b].pc = "idle"
                  /\ proc[b].error.kind = "HomeAssistantError"

\* C7 witness: a mix press whose only write failed, attempted once.
C7_Witness ==
    \E b \in Kinds :
        /\ device_type = "mix"
        /\ Len(CallsOf(proc[b].log)) = 1
        /\ Len(FailuresOf(proc[b].log)) = 1
        /\ proc[b].pc = "idle"

\* C8: an edit of a number or time entity changes one key of the coordinator
\* mapping at most, the entity's own field name, rewrites the state of that
\* entity alone, issues no vendor write and requests no refresh; the device's
\* settings change only in a step of a press whose vendor write returns.
C8_EditsAreLocal ==
    [][ /\ edits' # edits =>
              /\ device' = device
              /\ proc' = proc
              /\ \E k \in Kinds, r \in NumberRoles \cup TimeRoles :
                    LET own == IF r \in NumberRoles
                               THEN ApiKey(device_type, k, r)
                               ELSE TimeKey(device_type, k, r)
                    IN  /\ \A key \in DataKeys \ {own} : data'[key] = data[key]
                        /\ data'[own].ty = (IF r \in NumberRoles THEN "int" ELSE "str")
                        /\ \A i \in DOMAIN states :
                              i # IndexOf(registry, k, r) => states'[i] = states[i]
        /\ device' # device =>
              /\ edits' = edits
              /\ \E b \in Kinds :
                    /\ proc[b].pc = "writing"
                    /\ Len(proc'[b].log) > Len(proc[b].log) ]_vars

\* C8 witness: a number was edited to 7.9 (stored as 7) and the device still
\* holds its initial settings.
C8_Witness ==
    /\ edits > 0
    /\ device = DeviceInit
    /\ \E k \in Kinds, r \in NumberRoles : data[ApiKey(device_type, k, r)] = VInt(7)

\* C9: on a tlx device a time entity with segment n uses
\* 'timeSegmentStart<n>' / 'timeSegmentStop<n>'; on any other family a charge
\* entity uses 'forcedChargeTimeStart<n>' / 'forcedChargeTimeStop<n>' and a
\* discharge entity 'forcedDischargeTimeStart<n>' / 'forcedDischargeTimeStop<n>';
\* the start-time field of segment 1 is the literal key ending in '1'.
C9_FieldNames ==
    (call.op = "_get_field_name" /\ call.field_type \in {"start_time", "stop_time"}) =>
        LET start == call.field_type = "start_time"
            literal ==
                IF call.device_type = "tlx"
                THEN (IF start THEN "timeSegmentStart" ELSE "timeSegmentStop")
                ELSE IF call.kind = "charge"
                THEN (IF start THEN "forcedChargeTimeStart" ELSE "forcedChargeTimeStop")
                ELSE (IF start THEN "forcedDischargeTimeStart"
                      ELSE "forcedDischargeTimeStop")
        IN  /\ returned = <<literal>> \o DecStr(call.segment_id)
            /\ call.segment_id = 1 => returned = <<literal, "1">>

\* C9 witness: the discharge start-time field of segment 1 on a mix device.
C9_Witness ==
    /\ call.op = "_get_field_name"
    /\ call.device_type = "mix" /\ call.kind = "discharge"
    /\ call.field_type = "start_time" /\ call.segment_id = 1
    /\ returned = <<"forcedDischargeTimeStart", "1">>

\* C10: when a vendor write of a press raises the API error, the press ends
\* with one HomeAssistantError whose message names the press's setting type
\* and carries the vendor error text, and the press starts no vendor write
\* after the failing one.
C10_ApiErrorSurfacedOnce ==
    \A b \in Kinds :
        LET log == proc[b].log
        IN  /\ FailuresOf(log) # <<>> =>
                  /\ Len(FailuresOf(log)) = 1
                  /\ IsFailure(log[Len(log)])
                  /\ log[Len(log)].res \in ErrTexts
                  /\ proc[b].pc = "idle"
                  /\ proc[b].inflight = <<>> /\ proc[b].queue = <<>>
                  /\ proc[b].outcome = "api_error"
                  /\ proc[b].error = [kind |-> "HomeAssistantError",
                                      missing |-> <<>>,
                                      setting_type |-> b,
                                      text |-> log[Len(log)].res]
            /\ proc[b].outcome = "api_error" => FailuresOf(log) # <<>>

\* C10 witness: the first write of a discharge press on tlx failed; the second
\* was never started.
C10_Witness ==
    /\ device_type = "tlx"
    /\ proc["discharge"].outcome = "api_error"
    /\ proc["discharge"].error.setting_type = "discharge"
    /\ Len(proc["discharge"].log) = 2

\* C11: on tlx, with a V1 client, the two writes of a press are strictly
\* ordered.  A press starts with the power write; the step that starts the stop-SOC write is the step
\* in which the power write returns without error; the step in which the
\* power write fails ends the press with no stop-SOC write started and leaves
\* the device as it was; and the device's stop-SOC setting changes only in
\* the step in which the stop-SOC write of a press returns.
C11_TlxWritesOrdered ==
    [][ (api_is_v1 /\ device_type = "tlx") =>
          \A b \in Kinds :
            LET old == proc[b].log
                new == proc'[b].log
                soc_calls == {i \in 1..Len(new) :
                                 IsCall(new[i]) /\ new[i].w.id = IdSoc(b)}
            IN  /\ (new # old /\ new # <<>>) =>
                      /\ IsCall(new[1]) /\ new[1].w.id = IdPower(b)
                      /\ \A i \in soc_calls :
                            /\ i = 3
                            /\ IsReturn(new[2]) /\ new[2].res = "ok"
                            /\ new[2].w.id = IdPower(b)
                /\ (Len(new) = 3 /\ Len(old) = 1) =>
                      /\ proc[b].pc = "writing"
                      /\ proc[b].inflight[1].id = IdPower(b)
                      /\ device'[IdPower(b)] = proc[b].inflight[1].params[IdPower(b)]
                /\ (Len(new) = 2 /\ Len(old) = 1 /\ IsFailure(new[2])) =>
                      /\ soc_calls = {}
                      /\ proc'[b].pc = "idle"
                      /\ proc'[b].inflight = <<>> /\ proc'[b].queue = <<>>
                      /\ device' = device
                /\ device'[IdSoc(b)] # device[IdSoc(b)] =>
                      /\ Len(old) = 3
                      /\ proc[b].inflight[1].id = IdSoc(b)
                      /\ IsReturn(new[4]) /\ new[4].res = "ok" ]_vars

\* C11 witness: on tlx one press ended when its power write failed, with no
\* stop-SOC write started and the stop-SOC setting as it was, and the other
\* press went through both of its writes.
C11_Witness ==
    \E b, c \in Kinds :
        /\ device_type = "tlx"
        /\ Len(proc[b].log) = 2 /\ IsFailure(proc[b].log[2])
        /\ proc[b].log[1].w.id = IdPower(b)
        /\ device[IdSoc(b)] = DeviceInit[IdSoc(b)]
        /\ Len(proc[c].log) = 5 /\ proc[c].log[3].w.id = IdSoc(c)
        /\ device[IdSoc(c)] = ReadSoc(c).v

OwnState(b, r) ==
    IF IndexOf(registry, b, r) = 0 THEN NoneState
    ELSE states[IndexOf(registry, b, r)]

\* C13: the values a press writes to device D are read only from D's own
\* entities.  In the step in which a press with a V1 client starts, every
\* entity the press has found is D's own entity with the matching unique-id
\* suffix (none where D has no such entity), and the power and stop-SOC of
\* the writes it is going to issue are the states of D's own number entities,
\* whatever entities of other devices are registered.
C13_ReadsOwnEntitiesOnly ==
    [][ \A b \in Kinds :
          (api_is_v1 /\ proc'[b].presses = proc[b].presses + 1) =>
              /\ \A r \in Roles : proc'[b].found[r] = OwnState(b, r)
              /\ proc'[b].pc = "writing" =>
                    LET writes == proc'[b].inflight \o proc'[b].queue
                        last == writes[Len(writes)]
                    IN  /\ writes[1].params[IdPower(b)]
                              = IntFloat(OwnState(b, "power").state).v
                        /\ last.params[IdSoc(b)]
                              = IntFloat(OwnState(b, "stop_soc").state).v ]_vars

\* the four time entities of the device
TimeEntities == Kinds \X TimeRoles

\* C14: the four time entities of a device project four pairwise distinct
\* keys of the coordinator mapping, on tlx and on mix, so that a step that
\* sets one time entity leaves the value every other time entity of the
\* device reports as it was.
C14_TimeEntitiesIndependent ==
    [][ (edits' # edits /\ \E e \in TimeEntities : edited'[e[1]][e[2]] # edited[e[1]][e[2]]) =>
          /\ \A e, f \in TimeEntities :
                e # f => TimeKey(device_type, e[1], e[2]) # TimeKey(device_type, f[1], f[2])
          /\ \A f \in TimeEntities :
                edited'[f[1]][f[2]] = edited[f[1]][f[2]] =>
                    TimeNativeValue(data', device_type, f[1], f[2])
                        = TimeNativeValue(data, device_type, f[1], f[2]) ]_vars

\* the entities a platform's setup added for the device at index i
AddedFor(i) == SelectSeq(returned, LAMBDA e : e.dev = i)

\* C15: the three platforms agree on which devices are controllable.  For
\* every list of devices, each platform's setup adds its entities (four
\* numbers, the two apply buttons, the four times) for exactly the devices
\* with api_version 'v1' and device_type 'mix' or 'tlx', and nothing for any
\* other device.
C15_PlatformsAgree ==
    call.op = "async_setup_entry" =>
        \A i \in 1..Len(call.devices) :
            LET c == call.devices[i]
                controllable == c.api_version = "v1" /\ c.device_type \in {"mix", "tlx"}
                expected == IF call.platform = "button" THEN 2 ELSE 4
            IN  Len(AddedFor(i)) = (IF controllable THEN expected ELSE 0)

\* the two-digit text of n < 100
TwoDigits(n) == <<Digits[(n \div 10) + 1], Digits[(n % 10) + 1]>>

\* C16: time edit round trip.  For every time of day t and each of the four
\* time entities, a step async_set_value(t) leaves under the entity's field
\* the zero-padded text 'HH:MM' of t, native_value then returns the time with
\* t's hour and minute and zero seconds, and setting t once more would leave
\* the mapping as it is.
C16_TimeRoundTrip ==
    [][ \A k \in Kinds, r \in TimeRoles, t \in TimeValues :
          SetValue(k, r, t) =>
              /\ data'[TimeKey(device_type, k, r)]
                    = VStr(TwoDigits(t.h) \o <<":">> \o TwoDigits(t.m))
              /\ TimeNativeValue(data', device_type, k, r) = Ok(Time(t.h, t.m, 0))
              /\ SetValueData(data', device_type, k, r, t) = data' ]_vars

\* C16 witness: the discharge end time of a mix device was set to 07:05:30;
\* the mapping holds '07:05' and the entity reports 07:05:00.
C16_Witness ==
    /\ device_type = "mix"
    /\ edited["discharge"]["end_time"] = <<Time(7, 5, 30)>>
    /\ data[<<"forcedDischargeTimeStop", "1">>] = VStr(<<"0", "7", ":", "0", "5">>)
    /\ TimeNativeValue(data, device_type, "discharge", "end_time") = Ok(Time(7, 5, 0))

\* C18: number edit round trip.  For every number entity and every value v
\* of the range 0..100, a step async_set_native_value(v) leaves under the
\* entity's api_key the integer n with n <= v < n + 1, and native_value then
\* returns n; and native_value of a number entity whose api_key the accessor
\* has no value for returns None.
C18_NumberRoundTrip ==
    [][ /\ \A k \in Kinds, r \in NumberRoles, v \in NumberValues :
              SetNativeValue(k, r, v) =>
                  LET stored == data'[ApiKey(device_type, k, r)]
                  IN  /\ stored.ty = "int"
                      /\ 10 * stored.i <= v /\ v < 10 * stored.i + 10
                      /\ NumberNativeValue(data', device_type, k, r) = VInt(stored.i)
        /\ \A k \in Kinds, r \in NumberRoles :
              GetValue(data', ApiKey(device_type, k, r)) = VAbsent =>
                  NumberNativeValue(data', device_type, k, r) = VAbsent ]_vars

\* C18 witness: on a mapping that held no field, the charge stop-SOC was set
\* to 99.9; the mapping holds 99 under its api_key, the entity reports 99 and
\* the charge power entity, whose api_key has no value, reports None.
C18_Witness ==
    /\ edited["charge"]["stop_soc"] = <<999>>
    /\ data[ApiKey(device_type, "charge", "stop_soc")] = VInt(99)
    /\ NumberNativeValue(data, device_type, "charge", "stop_soc") = VInt(99)
    /\ data[ApiKey(device_type, "charge", "power")] = VAbsent
    /\ NumberNativeValue(data, device_type, "charge", "power") = VAbsent

\* a text 'HH:MM' with HH < 24 and MM < 60
WellFormed(text) ==
    /\ Len(text) = 5 /\ text[3] = ":"
    /\ \A i \in {1, 2, 4, 5} : IsDigit(text[i])
    /\ DigitsVal(SubSeq(text, 1, 2)) < 24 /\ DigitsVal(SubSeq(text, 4, 5)) < 60

\* a text with no colon, with a part before or after the first colon that is
\* not a number, or with an hour or a minute out of range
Malformed(text) ==
    LET parts == Split(text, ":")
    IN  \/ Len(parts) < 2
        \/ ~AllDigits(parts[1]) \/ ~AllDigits(parts[2])
        \/ DigitsVal(parts[1]) >= 24 \/ DigitsVal(parts[2]) >= 60

\* C17: reading a time entity never fails and yields a valid time of day.
\* Whatever the mapping holds under the entity's field, native_value returns
\* a time; for a well-formed 'HH:MM' text it is that hour and minute, and for
\* an absent key, a malformed text or a value that is not a text it is the
\* entity's default (14:00 charge start, 16:00 charge end, 00:00 discharge
\* start and end).
C17_TimeReadNeverFails ==
    call.op = "native_value" =>
        LET v == data[TimeKey(device_type, call.kind, call.role)]
            dflt == IF call.kind = "discharge" THEN Time(0, 0, 0)
                    ELSE IF call.role = "start_time" THEN Time(14, 0, 0)
                    ELSE Time(16, 0, 0)
        IN  /\ returned.exc = "none"
            /\ returned.v.h \in 0..23 /\ returned.v.m \in 0..59 /\ returned.v.s = 0
            /\ (v.ty = "str" /\ WellFormed(v.s)) =>
                  returned.v = Time(DigitsVal(SubSeq(v.s, 1, 2)),
                                    DigitsVal(SubSeq(v.s, 4, 5)), 0)
            /\ (v.ty # "str" \/ Malformed(v.s)) => returned.v = dflt

\* C19: a press that completes without error has issued at least one vendor
\* write: whatever the device type and whatever the API client, a press that
\* has ended in success, and with it every press that has requested a
\* refresh, has started a vendor write before.
C19_SuccessImpliesWrite ==
    \A b \in Kinds :
        (proc[b].outcome = "success" \/ RefreshesOf(proc[b].log) # <<>>) =>
            CallsOf(proc[b].log) # <<>>

====
